---- MODULE Spec2Model ----
(***************************************************************************)
(* Model of parse_dialogue_text (src/app.py), the line-oriented transcript *)
(* parser of transcript-to-table.                                          *)
(*                                                                         *)
(* Text representation.  A line of text is the sequence of its tokens, the *)
(* maximal runs of non-blank characters; brackets, parentheses, delimiters *)
(* and wrappers are tokens of their own (the patterns of lines 89-91 allow *)
(* white space around them, so "[Jane D] hi" and "[ Jane D ] hi" are one   *)
(* line to them).  A text is its tokens joined by single ASCII blanks, so   *)
(* the empty sequence is the empty string and a + " " + b is a \o b.  The  *)
(* token "" is the empty word: <<"", "a">> is " a" and <<"a", "", "b">> is *)
(* "a  b".  The token "NBSP" is a white space character outside WRAP_CHARS *)
(* (U+00A0), "BOM" is U+FEFF.  A formatted timestamp "MM:SS" is the pair   *)
(* <<MM, SS>> of the two numbers that are printed, so "05:12" is <<5, 12>>.*)
(***************************************************************************)
EXTENDS Integers, Sequences, FiniteSets, TLC

VARIABLES
    counselor_name,   \* parameter, normalised (line 136)
    client_name,      \* parameter, normalised (line 137)
    shift_seconds,    \* parameter (line 119)
    lines,            \* the physical lines consumed so far by the loop of line 168
    rows,             \* rows (line 140): records Timestamp, Speaker, Quote
    pending_speaker,  \* line 141
    pending_ts,       \* line 142
    pc,               \* "scan" while in the loop of line 168, "done" after line 360
    branch,           \* the branch of the loop body that handled the last line
    df,               \* the returned rows, with Tag (line 359); <<>> before the return
    emitted,          \* history: the fragments materialized so far, with their speakers
    before,           \* history: rows, pending_speaker, pending_ts and emitted as they
                      \* were when the iteration of the last line began
    mm_in,            \* _to_mmss harness: the arguments of the calls
    mm_out,           \* _to_mmss harness: the results of the calls
    an_in,            \* anonymizer harness: the text of the calls
    an_out            \* anonymizer harness: the results of the calls

vars == <<counselor_name, client_name, shift_seconds, lines, rows,
          pending_speaker, pending_ts, pc, branch, df, emitted, before,
          mm_in, mm_out, an_in, an_out>>

\* Python's None: a value that no text and no timestamp equals
None == <<"<None>">>

\* x or ""
OrEmpty(x) == IF x = None THEN <<>> ELSE x

(***************************************************************************)
(* Bounds of the model.                                                    *)
(***************************************************************************)
MaxLines == 3
MaxMinute == 3
MaxShift == 4

(***************************************************************************)
(* Sequence helpers.                                                       *)
(***************************************************************************)
Min(S) == CHOOSE x \in S : \A y \in S : x <= y
Max(S) == CHOOSE x \in S : \A y \in S : y <= x

\* index of the first / last token of s that is in T (member = TRUE) or not in T
\* (member = FALSE); 0 when there is none
FirstIdx(s, T, member) ==
    LET I == {i \in 1..Len(s) : (s[i] \in T) = member}
    IN IF I = {} THEN 0 ELSE Min(I)

LastIdx(s, T, member) ==
    LET I == {i \in 1..Len(s) : (s[i] \in T) = member}
    IN IF I = {} THEN 0 ELSE Max(I)

RemoveAt(s, i) == SubSeq(s, 1, i - 1) \o SubSeq(s, i + 1, Len(s))

(***************************************************************************)
(* Character classes, as sets of tokens.                                   *)
(***************************************************************************)
\* the class of the regex of line 27 (and 196): - : * # >
DecorTokens == {"-", ":", "*", "#", ">"}

\* WRAP_CHARS, line 20
WRAP_CHARS == {"'", "{", "}", "<", ">"}

\* the delimiter class of _SPEAKER_DELIM_ANY_RE, line 91
DelimTokens == {":", "-"}

\* CUE_ARROW_RE, line 46
CueArrowTokens == {"-->"}

\* white space that str.strip() and \s take and WRAP_CHARS and the class of
\* line 27 do not; with the empty word, all that is white space only
UnicodeBlanks == {"NBSP"}
Blanks == UnicodeBlanks \cup {""}

\* tokens without any \w character (line 33)
PunctTokens == DecorTokens \cup WRAP_CHARS \cup CueArrowTokens \cup Blanks
                 \cup {"[", "]", "(", ")", "BOM"}

\* str.strip(): white space is taken from both ends
StrStrip(s) ==
    LET a == FirstIdx(s, Blanks, FALSE)
        b == LastIdx(s, Blanks, FALSE)
    IN IF a = 0 THEN <<>> ELSE SubSeq(s, a, b)

\* the leading \s* of a group (?P<rest>.*)
LStrip(s) ==
    LET a == FirstIdx(s, Blanks, FALSE)
    IN IF a = 0 THEN <<>> ELSE SubSeq(s, a, Len(s))

\* re.sub(r"\s+", " ", s), lines 29 and 51: every run of white space becomes
\* one blank; inside the text that is the blank between two words, at an end
\* it is a blank before the first or after the last word
CollapseBlanks(s) ==
    (IF s # <<>> /\ s[1] \in Blanks THEN <<"">> ELSE <<>>)
    \o SelectSeq(s, LAMBDA t : t \notin Blanks)
    \o (IF s # <<>> /\ s[Len(s)] \in Blanks THEN <<"">> ELSE <<>>)

\* _normalize_name_input, lines 49-52
_normalize_name_input(name) == StrStrip(CollapseBlanks(name))

\* str.casefold / re.IGNORECASE on the vocabulary of the model
CaseFold(t) ==
    CASE t \in {"Jane", "JANE"} -> "jane"
      [] t = "D" -> "d"
      [] t \in {"Sam", "SAM"} -> "sam"
      [] t = "Bob" -> "bob"
      [] t = "Couns" -> "couns"
      [] t = "Client" -> "client"
      [] t = "WEBVTT" -> "webvtt"
      [] OTHER -> t

FoldSeq(s) == [i \in DOMAIN s |-> CaseFold(s[i])]

\* html.unescape, line 170: the entity of ">" inside a cue arrow
HtmlUnescape(t) == IF t = "--&gt;" THEN "-->" ELSE t

(***************************************************************************)
(* Timestamps.                                                             *)
(***************************************************************************)
\* _TS_RE_ANYWHERE, line 37: the tokens it matches, and the groups (1, 2, 3)
\* of the match as numbers; group 3 is -1 when it did not take part
TsTokens == {"00:10", "05:12", "01:02:03", "00:00:10.000", "00:00:12.000"}

TsGroups(t) ==
    CASE t = "00:10" -> <<0, 10, -1>>
      [] t = "05:12" -> <<5, 12, -1>>
      [] t = "01:02:03" -> <<1, 2, 3>>
      [] t = "00:00:10.000" -> <<0, 0, 10>>
      [] t = "00:00:12.000" -> <<0, 0, 12>>

\* _TS_RE_ANYWHERE.search(s): the index of the first match, 0 for no match
TsSearch(s) == FirstIdx(s, TsTokens, TRUE)

\* ToSeconds without the floor of line 41
ToSeconds_NoFloor(mm, ss, shift) == mm * 60 + ss - shift

\* line 40-41: the seconds that _to_mmss prints
ToSeconds(mm, ss, shift) ==
    LET total == mm * 60 + ss
    IN IF total - shift > 0 THEN total - shift ELSE 0

\* _to_mmss, lines 39-43
_to_mmss(mm, ss, shift) ==
    LET total == ToSeconds(mm, ss, shift)
    IN <<total \div 60, total % 60>>

\* the choice of (mm, ss) from a match, lines 183-186 (and 198-201, 212-215,
\* 238-241, 265-268, 294-297)
MatchMmSs(t) ==
    LET g == TsGroups(t)
    IN IF g[3] # -1 THEN <<g[2], g[3]>> ELSE <<g[1], g[2]>>

\* pending_ts = _to_mmss(mm, ss, shift_seconds) for the match t
CarryTs(t, shift) == _to_mmss(MatchMmSs(t)[1], MatchMmSs(t)[2], shift)

(***************************************************************************)
(* Quote sanitizer.                                                        *)
(***************************************************************************)
\* re.sub(r"^[\-...:...*#> ]+", "", s), lines 27 and 196: the leading run of
\* decorative characters and ASCII blanks is dropped
StripLeadingDecor(s) ==
    LET i == FirstIdx(s, DecorTokens \cup {""}, FALSE)
    IN IF i = 0 THEN <<>> ELSE SubSeq(s, i, Len(s))

\* _strip_wrappers, lines 22-23: the wrappers and the ASCII white space of
\* WRAP_CHARS are taken from both ends
_strip_wrappers(s) ==
    LET a == FirstIdx(s, WRAP_CHARS \cup {""}, FALSE)
        b == LastIdx(s, WRAP_CHARS \cup {""}, FALSE)
    IN IF a = 0 THEN <<>> ELSE SubSeq(s, a, b)

\* _clean_quote, lines 25-30
_clean_quote(s) ==
    CollapseBlanks(_strip_wrappers(StrStrip(StripLeadingDecor(StrStrip(s)))))

\* _is_meaningful that takes every text
_is_meaningful_Always(text) == TRUE

\* _is_meaningful, lines 32-33
_is_meaningful(text) == \E i \in 1..Len(text) : text[i] \notin PunctTokens

\* _wc, lines 350-352: the words of s.strip() split at white space
_wc(s) == Cardinality({i \in 1..Len(s) : s[i] \notin Blanks})

(***************************************************************************)
(* Name matcher / anonymizer.                                              *)
(***************************************************************************)
RECURSIVE NameMatchEnd(_, _, _, _)
\* _build_name_inner_pattern, lines 66-70, under re.IGNORECASE: the tokens of
\* the name from the k-th on match s from position i on, with white space (\s+)
\* between two tokens; the result is the position of the last token matched,
\* 0 for no match
NameMatchEnd(s, name, i, k) ==
    IF k > Len(name) THEN i - 1
    ELSE IF i > Len(s) THEN 0
    ELSE IF k > 1 /\ s[i] \in Blanks THEN NameMatchEnd(s, name, i + 1, k)
    ELSE IF CaseFold(s[i]) = CaseFold(name[k]) THEN NameMatchEnd(s, name, i + 1, k + 1)
    ELSE 0

\* the pattern of _whole_name_captor (lines 72-77) and of line 100 at the head
\* of s: the last position of the match, 0 for no match (the tokens on both
\* sides are set off by white space or are boundary characters)
NameAtHead(s, name) == IF name = <<>> THEN 0 ELSE NameMatchEnd(s, name, 1, 1)

RECURSIVE _safe_replace_whole_name(_, _, _)
\* _safe_replace_whole_name, lines 79-86: pat.sub over the non-overlapping
\* matches from left to right
_safe_replace_whole_name(text, name, replacement) ==
    IF name = <<>> \/ text = <<>> THEN text
    ELSE IF NameAtHead(text, name) # 0
         THEN <<replacement>> \o
              _safe_replace_whole_name(SubSeq(text, NameAtHead(text, name) + 1, Len(text)),
                                       name, replacement)
         ELSE <<Head(text)>> \o
              _safe_replace_whole_name(Tail(text), name, replacement)

\* lines 223-224 (and 250-251, 277-278, 305-306, 328-329)
Anonymize(q) ==
    _safe_replace_whole_name(
        _safe_replace_whole_name(q, counselor_name, "Couns"),
        client_name, "Client")

\* map_public, lines 146-154
map_public(name) ==
    IF name = None \/ name = <<>> THEN None
    ELSE LET nm == FoldSeq(_normalize_name_input(name))
         IN IF nm \in {FoldSeq(counselor_name), <<"couns">>} THEN <<"Couns">>
            ELSE IF nm \in {FoldSeq(client_name), <<"client">>} THEN <<"Client">>
            ELSE name

(***************************************************************************)
(* Line grammar recognizer.                                                *)
(***************************************************************************)
\* line 170: html.unescape, removal of the byte order mark, strip
NormalizeLine(raw) ==
    StrStrip([i \in DOMAIN raw |-> IF raw[i] = "BOM" THEN "" ELSE HtmlUnescape(raw[i])])

\* line 175
IsHeader(line) == line # <<>> /\ CaseFold(line[1]) = "webvtt"

\* line 180
IsCue(line) == \E i \in 1..Len(line) : line[i] \in CueArrowTokens

\* lines 192-197: the line is a timestamp and nothing meaningful besides
IsTsOnly(line) ==
    /\ TsSearch(line) # 0
    /\ LET leftover == StrStrip(RemoveAt(line, TsSearch(line)))
           leftover_clean ==
               StrStrip(CollapseBlanks(_strip_wrappers(StripLeadingDecor(leftover))))
       IN ~_is_meaningful(leftover_clean)

NoMatch == [ok |-> FALSE, name |-> <<>>, ts |-> <<>>, rest |-> <<>>]

\* _SPEAKER_PAREN_ANY_RE.match, line 90: a non-empty lazy name, the first "(" that
\* is followed by a ")", the group up to the first ")", and the rest
SpeakerParenMatch(line) ==
    LET I == {i \in 2..Len(line) :
                line[i] = "(" /\ \E j \in (i + 1)..Len(line) : line[j] = ")"}
    IN IF I = {} THEN NoMatch
       ELSE LET i == Min(I)
                j == Min({k \in (i + 1)..Len(line) : line[k] = ")"})
            IN [ok |-> TRUE, name |-> SubSeq(line, 1, i - 1),
                ts |-> SubSeq(line, i + 1, j - 1),
                rest |-> LStrip(SubSeq(line, j + 1, Len(line)))]

\* _SPEAKER_BRACKET_RE.match, line 89 (between "[" and "]" next to it there is
\* the blank that joins the tokens, so the name is not empty to the pattern)
SpeakerBracketMatch(line) ==
    LET J == {j \in 2..Len(line) : line[j] = "]"}
    IN IF line = <<>> \/ line[1] # "[" \/ J = {} THEN NoMatch
       ELSE [ok |-> TRUE, name |-> SubSeq(line, 2, Min(J) - 1), ts |-> <<>>,
             rest |-> LStrip(SubSeq(line, Min(J) + 1, Len(line)))]

\* _SPEAKER_DELIM_ANY_RE.match, line 91: a non-empty lazy name, the first
\* delimiter that has white space and more text after it
SpeakerDelimMatch(line) ==
    LET I == {i \in 2..(Len(line) - 1) : line[i] \in DelimTokens}
    IN IF I = {} THEN NoMatch
       ELSE [ok |-> TRUE, name |-> SubSeq(line, 1, Min(I) - 1), ts |-> <<>>,
             rest |-> LStrip(SubSeq(line, Min(I) + 1, Len(line)))]

\* _build_bare_token_patterns, lines 93-108: (label, name) in the order tried
bare_pats(counselor, client) ==
    SelectSeq(<< <<"Couns", counselor>>, <<"Client", client>>,
                 <<"Couns", <<"Couns">> >>, <<"Client", <<"Client">> >> >>,
              LAMBDA p : p[2] # <<>>)

\* lines 287-289: the first pattern of bare_pats that matches, 0 for none
BareIdx(line, pats) ==
    LET I == {k \in 1..Len(pats) : NameAtHead(line, pats[k][2]) # 0}
    IN IF I = {} THEN 0 ELSE Min(I)

\* lines 288-291: the label and the rest of the first pattern that matches
BareMatch(line, pats) ==
    IF BareIdx(line, pats) = 0 THEN NoMatch
    ELSE LET pat == pats[BareIdx(line, pats)]
         IN [ok |-> TRUE, name |-> <<pat[1]>>, ts |-> <<>>,
             rest |-> LStrip(SubSeq(line, NameAtHead(line, pat[2]) + 1, Len(line)))]

\* Grammar whose Name(timestamp) branch ends the iteration also when the
\* parentheses hold no timestamp: no lower grammar sees the line
Grammar_ParenSwallows(line, pats) ==
    IF line = <<>> THEN "blank"
    ELSE IF IsHeader(line) THEN "header"
    ELSE IF IsCue(line) THEN "A"
    ELSE IF IsTsOnly(line) THEN "B"
    ELSE IF SpeakerParenMatch(line).ok
         THEN (IF TsSearch(SpeakerParenMatch(line).ts) # 0 THEN "C" ELSE "blank")
    ELSE IF SpeakerBracketMatch(line).ok THEN "D"
    ELSE IF SpeakerDelimMatch(line).ok THEN "E"
    ELSE IF BareMatch(line, pats).ok THEN "F"
    ELSE "G"

\* Grammar with the test of Name:/Name-dash made before the test of the cue arrow
Grammar_DelimBeforeCue(line, pats) ==
    IF line = <<>> THEN "blank"
    ELSE IF IsHeader(line) THEN "header"
    ELSE IF SpeakerDelimMatch(line).ok THEN "E"
    ELSE IF IsCue(line) THEN "A"
    ELSE IF IsTsOnly(line) THEN "B"
    ELSE IF SpeakerParenMatch(line).ok /\ TsSearch(SpeakerParenMatch(line).ts) # 0
         THEN "C"
    ELSE IF SpeakerBracketMatch(line).ok THEN "D"
    ELSE IF BareMatch(line, pats).ok THEN "F"
    ELSE "G"

\* the branch of the loop body (lines 171-333) that handles the line: the tests
\* are made in this order and the first that holds ends the iteration
Grammar(line, pats) ==
    IF line = <<>> THEN "blank"
    ELSE IF IsHeader(line) THEN "header"
    ELSE IF IsCue(line) THEN "A"
    ELSE IF IsTsOnly(line) THEN "B"
    ELSE IF SpeakerParenMatch(line).ok /\ TsSearch(SpeakerParenMatch(line).ts) # 0
         THEN "C"
    ELSE IF SpeakerBracketMatch(line).ok THEN "D"
    ELSE IF SpeakerDelimMatch(line).ok THEN "E"
    ELSE IF BareMatch(line, pats).ok THEN "F"
    ELSE "G"

(***************************************************************************)
(* The turn aggregator.                                                    *)
(***************************************************************************)
\* _append_or_add that starts a new row for every fragment
_append_or_add_NeverMerges(rws, speaker_public, q, ts_for_row) ==
    Append(rws, [Timestamp |-> ts_for_row, Speaker |-> speaker_public, Quote |-> q])

\* _append_or_add, lines 156-166: the rows after the call
_append_or_add(rws, speaker_public, q, ts_for_row) ==
    IF rws # <<>> /\ rws[Len(rws)].Speaker = speaker_public
    THEN [rws EXCEPT ![Len(rws)] =
            [Timestamp |-> IF speaker_public = <<"Client">> THEN <<>> ELSE @.Timestamp,
             Speaker |-> @.Speaker,
             Quote |-> StrStrip(@.Quote \o q)]]
    ELSE Append(rws, [Timestamp |-> ts_for_row, Speaker |-> speaker_public, Quote |-> q])

\* Emit with the pending timestamp given to every new row, the Client's too
Emit_KeepsClientTs(rws, ps, pts, q) ==
    _append_or_add(rws, OrEmpty(map_public(ps)), Anonymize(q), OrEmpty(pts))

\* lines 222-226 (and 249-253, 276-280, 304-308, 327-331): the rows after a
\* meaningful fragment q is attributed to speaker ps with timestamp pts
Emit(rws, ps, pts, q) ==
    LET speaker_public == OrEmpty(map_public(ps))
        ts_for_row == IF speaker_public = <<"Client">> THEN <<>> ELSE OrEmpty(pts)
    IN _append_or_add(rws, speaker_public, Anonymize(q), ts_for_row)

\* lines 320-324: a continuation line appended to the last row
ContinuationAppend(rws, q) ==
    [rws EXCEPT ![Len(rws)] =
        [Timestamp |-> IF @.Speaker = <<"Client">> THEN <<>> ELSE @.Timestamp,
         Speaker |-> @.Speaker,
         Quote |-> StrStrip(@.Quote \o q)]]

RECURSIVE collapse_inverted(_)
\* collapse_consecutive_rows with the comparison of line 339 inverted (!=)
collapse_inverted(rows_in) ==
    IF rows_in = <<>> THEN <<>>
    ELSE LET merged == collapse_inverted(SubSeq(rows_in, 1, Len(rows_in) - 1))
             r == rows_in[Len(rows_in)]
         IN IF merged # <<>> /\ merged[Len(merged)].Speaker # r.Speaker
            THEN [merged EXCEPT ![Len(merged)] =
                    [Timestamp |-> IF @.Speaker = <<"Client">> THEN <<>> ELSE @.Timestamp,
                     Speaker |-> @.Speaker,
                     Quote |-> StrStrip(@.Quote \o r.Quote)]]
            ELSE Append(merged, r)

RECURSIVE collapse_consecutive_rows(_)
\* collapse_consecutive_rows, lines 336-345 (merged, built from the left)
collapse_consecutive_rows(rows_in) ==
    IF rows_in = <<>> THEN <<>>
    ELSE LET merged == collapse_consecutive_rows(SubSeq(rows_in, 1, Len(rows_in) - 1))
             r == rows_in[Len(rows_in)]
         IN IF merged # <<>> /\ merged[Len(merged)].Speaker = r.Speaker
            THEN [merged EXCEPT ![Len(merged)] =
                    [Timestamp |-> IF @.Speaker = <<"Client">> THEN <<>> ELSE @.Timestamp,
                     Speaker |-> @.Speaker,
                     Quote |-> StrStrip(@.Quote \o r.Quote)]]
            ELSE Append(merged, r)

\* TagRow with "fewer than three words" for "at most three"
TagRow_LessThan3(r) ==
    [Timestamp |-> IF r.Speaker = <<"Client">> THEN <<>> ELSE r.Timestamp,
     Speaker |-> r.Speaker,
     Quote |-> r.Quote,
     Tag |-> IF r.Speaker = <<"Couns">> /\ _wc(r.Quote) < 3 THEN "ME" ELSE ""]

\* lines 354-357: the sweep over the collapsed rows
TagRow(r) ==
    [Timestamp |-> IF r.Speaker = <<"Client">> THEN <<>> ELSE r.Timestamp,
     Speaker |-> r.Speaker,
     Quote |-> r.Quote,
     Tag |-> IF r.Speaker = <<"Couns">> /\ _wc(r.Quote) <= 3 THEN "ME" ELSE ""]

(***************************************************************************)
(* The inputs.                                                             *)
(***************************************************************************)
\* (counselor name, client name) as entered in the sidebar, lines 375-379
NamePairs == { << <<"Jane", "D">>, <<"Sam">> >> }

\* the shift of line 382 (an integer, min_value = 0, step = 1)
Shifts == {0, 5}

\* text.splitlines(), line 139: the physical lines a transcript is made of
Lines == {
    <<>>,
    <<"BOM", "WEBVTT">>,
    <<"00:00:10.000", "--&gt;", "00:00:12.000">>,
    <<"Sam", ":", "01:02:03", "-->", "hi">>,
    <<"00:10">>,
    <<"-", "01:02:03">>,
    <<"[", "Jane", "D", "]", "05:12", "Hello", "there">>,
    <<"[", "Bob", "]">>,
    <<"Sam", ":", "Yeah.">>,
    <<"Sam", ":", "okay.">>,
    <<"Sam", ":", "'", "NBSP", "okay.", "'">>,
    <<"Jane", "D", ":", "Okay">>,
    <<"Jane", "D", ":">>,
    <<"Jane", "D", "(", "05:12", ")">>,
    <<"SAM", "(", "01:02:03", ")", "a", "b", "c", "Jane", "D">>,
    <<"Bob", "(", "note", ")", "hi">>,
    <<"Bob", "(", "note", ")", "-", "hello", "Sam">>,
    <<"Client", "sure">>,
    <<"I", "told", "Sam", "yes">>,
    <<"'", "more", "NBSP", "'">>,
    <<"*", "*">>
}

(***************************************************************************)
(* The parser as a state machine: one step per iteration of the loop of    *)
(* line 168, one action per branch of its body, and the return.            *)
(***************************************************************************)
Init ==
    /\ \E np \in NamePairs : counselor_name = np[1] /\ client_name = np[2]
    /\ shift_seconds \in Shifts
    /\ lines = <<>>
    /\ rows = <<>>
    /\ pending_speaker = None
    /\ pending_ts = None
    /\ pc = "scan"
    /\ branch = [grammar |-> "start", materialized |-> FALSE]
    /\ df = <<>>
    /\ emitted = <<>>
    /\ before = [rows |-> <<>>, pending_speaker |-> None, pending_ts |-> None,
                 emitted |-> <<>>]
    /\ mm_in = <<>>
    /\ mm_out = <<>>
    /\ an_in = <<>>
    /\ an_out = <<>>

\* the branch that handles each line of Lines, for each pair of names
GrammarOfLine ==
    [np \in NamePairs |->
        [raw \in Lines |-> Grammar(NormalizeLine(raw), bare_pats(np[1], np[2]))]]

GrammarOf(raw) == GrammarOfLine[<<counselor_name, client_name>>][raw]

\* what the loop body takes from each line of Lines alone, for each pair of
\* names: the normalized line (line 170) and the match of each speaker pattern
\* (lines 207, 232, 259, 287-290)
MatchOfLine ==
    [np \in NamePairs |->
        [raw \in Lines |->
            LET line == NormalizeLine(raw)
            IN [line |-> line,
                C |-> SpeakerParenMatch(line),
                D |-> SpeakerBracketMatch(line),
                E |-> SpeakerDelimMatch(line),
                F |-> BareMatch(line, bare_pats(np[1], np[2]))]]]

Parsed(raw) == MatchOfLine[<<counselor_name, client_name>>][raw]

\* an iteration of the loop on the physical line raw, handled by branch g
Reads(raw, g) ==
    /\ pc = "scan"
    /\ Len(lines) < MaxLines
    /\ GrammarOf(raw) = g
    /\ lines' = Append(lines, raw)
    /\ before' = [rows |-> rows, pending_speaker |-> pending_speaker,
                  pending_ts |-> pending_ts, emitted |-> emitted]
    /\ UNCHANGED <<counselor_name, client_name, shift_seconds, pc, df, mm_in, mm_out,
                   an_in, an_out>>

\* EmitOrCarry that forgets the speaker and the timestamp of a line without
\* meaningful text
EmitOrCarry_Forgets(g, ps, pts, q) ==
    IF _is_meaningful(q)
    THEN /\ rows' = Emit(rows, ps, pts, q)
         /\ pending_speaker' = None
         /\ pending_ts' = None
         /\ branch' = [grammar |-> g, materialized |-> TRUE]
         /\ emitted' = Append(emitted, [speaker |-> OrEmpty(map_public(ps)),
                                        q |-> Anonymize(q)])
    ELSE /\ branch' = [grammar |-> g, materialized |-> FALSE]
         /\ UNCHANGED <<rows, emitted, pending_speaker, pending_ts>>

\* lines 222-228 (and the like): a fragment q of speaker ps is materialized
\* when meaningful, and stays pending otherwise
EmitOrCarry(g, ps, pts, q) ==
    IF _is_meaningful(q)
    THEN /\ rows' = Emit(rows, ps, pts, q)
         /\ pending_speaker' = None
         /\ pending_ts' = None
         /\ branch' = [grammar |-> g, materialized |-> TRUE]
         /\ emitted' = Append(emitted, [speaker |-> OrEmpty(map_public(ps)),
                                        q |-> Anonymize(q)])
    ELSE /\ rows' = rows
         /\ emitted' = emitted
         /\ pending_speaker' = ps
         /\ pending_ts' = pts
         /\ branch' = [grammar |-> g, materialized |-> FALSE]

\* InlineTs that does not carry the timestamp of the line
InlineTs_Ignored(rest) == pending_ts

\* lines 236-244 (and 263-271, 292-300): the inline timestamp of rest, if any, is
\* carried and cut out of rest
InlineTs(rest) == IF TsSearch(rest) = 0 THEN pending_ts
                  ELSE CarryTs(rest[TsSearch(rest)], shift_seconds)

\* CutTs that leaves the timestamp in the text
CutTs_KeepsTs(rest) == rest

\* lines 243-244 (and 270-271, 299-300)
CutTs(rest) ==
    IF TsSearch(rest) = 0 THEN rest ELSE StrStrip(RemoveAt(rest, TsSearch(rest)))

\* the sanitized text that each branch makes of each line of Lines: lines 220,
\* 243-247, 270-274, 299-302 and 317
QuoteOfLine ==
    [np \in NamePairs |->
        [raw \in Lines |->
            LET p == MatchOfLine[np][raw]
            IN [C |-> _clean_quote(p.C.rest),
                D |-> _clean_quote(CutTs(p.D.rest)),
                E |-> _clean_quote(CutTs(p.E.rest)),
                F |-> _clean_quote(CutTs(p.F.rest)),
                G |-> _clean_quote(p.line)]]]

Quoted(raw) == QuoteOfLine[<<counselor_name, client_name>>][raw]

\* lines 171-172
SkipBlank(raw) ==
    /\ Reads(raw, "blank")
    /\ branch' = [grammar |-> "blank", materialized |-> FALSE]
    /\ UNCHANGED <<rows, pending_speaker, pending_ts, emitted>>

\* lines 175-177
SkipHeader(raw) ==
    /\ Reads(raw, "header")
    /\ branch' = [grammar |-> "header", materialized |-> FALSE]
    /\ UNCHANGED <<rows, pending_speaker, pending_ts, emitted>>

\* lines 180-189
CueLine(raw) ==
    LET line == Parsed(raw).line
    IN /\ Reads(raw, "A")
       /\ pending_ts' = IF TsSearch(line) # 0
                        THEN CarryTs(line[TsSearch(line)], shift_seconds)
                        ELSE pending_ts
       /\ branch' = [grammar |-> "A", materialized |-> FALSE]
       /\ UNCHANGED <<rows, pending_speaker, emitted>>

\* TimestampOnlyLine that keeps an earlier pending timestamp
TimestampOnlyLine_KeepsEarlier(raw) ==
    LET line == Parsed(raw).line
    IN /\ Reads(raw, "B")
       /\ pending_ts' = IF pending_ts = None
                        THEN CarryTs(line[TsSearch(line)], shift_seconds)
                        ELSE pending_ts
       /\ branch' = [grammar |-> "B", materialized |-> FALSE]
       /\ UNCHANGED <<rows, pending_speaker, emitted>>

\* lines 192-204
TimestampOnlyLine(raw) ==
    LET line == Parsed(raw).line
    IN /\ Reads(raw, "B")
       /\ pending_ts' = CarryTs(line[TsSearch(line)], shift_seconds)
       /\ branch' = [grammar |-> "B", materialized |-> FALSE]
       /\ UNCHANGED <<rows, pending_speaker, emitted>>

\* lines 207-229
NameParenLine(raw) ==
    LET m == Parsed(raw).C
    IN /\ Reads(raw, "C")
       /\ EmitOrCarry("C", _normalize_name_input(m.name), CarryTs(m.ts[TsSearch(m.ts)], shift_seconds),
                      Quoted(raw).C)

\* lines 232-256
BracketLine(raw) ==
    LET m == Parsed(raw).D
    IN /\ Reads(raw, "D")
       /\ EmitOrCarry("D", _normalize_name_input(m.name), InlineTs(m.rest), Quoted(raw).D)

\* lines 259-283
DelimLine(raw) ==
    LET m == Parsed(raw).E
    IN /\ Reads(raw, "E")
       /\ EmitOrCarry("E", _normalize_name_input(m.name), InlineTs(m.rest), Quoted(raw).E)

\* lines 286-314
BareTokenLine(raw) ==
    LET m == Parsed(raw).F
    IN /\ Reads(raw, "F")
       /\ EmitOrCarry("F", m.name, InlineTs(m.rest), Quoted(raw).F)

\* lines 317-333
ContinuationLine(raw) ==
    LET q == Quoted(raw).G
    IN /\ Reads(raw, "G")
       /\ IF ~_is_meaningful(q)
          THEN /\ branch' = [grammar |-> "G", materialized |-> FALSE]
               /\ UNCHANGED <<rows, pending_speaker, pending_ts, emitted>>
          ELSE IF rows # <<>> /\ pending_speaker = None
          THEN /\ rows' = ContinuationAppend(rows, q)
               /\ branch' = [grammar |-> "G", materialized |-> TRUE]
               /\ emitted' = Append(emitted, [speaker |-> rows[Len(rows)].Speaker, q |-> q])
               /\ UNCHANGED <<pending_speaker, pending_ts>>
          ELSE /\ rows' = Emit(rows, pending_speaker, pending_ts, q)
               /\ emitted' = Append(emitted, [speaker |-> OrEmpty(map_public(pending_speaker)),
                                              q |-> Anonymize(q)])
               /\ pending_speaker' = None
               /\ pending_ts' = None
               /\ branch' = [grammar |-> "G", materialized |-> TRUE]

\* lines 347-360: the lines are exhausted; collapse, sweep, tag and return
Return ==
    /\ pc = "scan"
    /\ rows' = collapse_consecutive_rows(rows)
    /\ df' = [i \in DOMAIN rows' |-> TagRow(rows'[i])]
    /\ pc' = "done"
    /\ UNCHANGED <<counselor_name, client_name, shift_seconds, lines,
                   pending_speaker, pending_ts, branch, emitted, before,
                   mm_in, mm_out, an_in, an_out>>

\* line 168: the physical lines the loop may read next, none once it has ended
Unread == IF pc = "scan" /\ Len(lines) < MaxLines THEN Lines ELSE {}

Next ==
    \/ \E raw \in Unread : SkipBlank(raw)
    \/ \E raw \in Unread : SkipHeader(raw)
    \/ \E raw \in Unread : CueLine(raw)
    \/ \E raw \in Unread : TimestampOnlyLine(raw)
    \/ \E raw \in Unread : NameParenLine(raw)
    \/ \E raw \in Unread : BracketLine(raw)
    \/ \E raw \in Unread : DelimLine(raw)
    \/ \E raw \in Unread : BareTokenLine(raw)
    \/ \E raw \in Unread : ContinuationLine(raw)
    \/ Return

Spec == Init /\ [][Next]_vars

(***************************************************************************)
(* _to_mmss on its own: the same match (mm, ss) normalized under two       *)
(* shifts s1 and s2.                                                       *)
(***************************************************************************)
\* the values of the second group of _TS_RE_ANYWHERE, (\d{2})
SecondValues == {0, 1, 2, 3, 30, 59, 60, 99}

ShiftValues == (0..MaxShift) \cup {59, 60, 61, 125}

InitTs ==
    /\ \E np \in NamePairs : counselor_name = np[1] /\ client_name = np[2]
    /\ shift_seconds = 0
    /\ lines = <<>>
    /\ rows = <<>>
    /\ pending_speaker = None
    /\ pending_ts = None
    /\ pc = "done"
    /\ branch = [grammar |-> "start", materialized |-> FALSE]
    /\ df = <<>>
    /\ emitted = <<>>
    /\ before = [rows |-> <<>>, pending_speaker |-> None, pending_ts |-> None,
                 emitted |-> <<>>]
    /\ mm_in \in [mm : 0..MaxMinute, ss : SecondValues, s1 : ShiftValues, s2 : ShiftValues]
    /\ mm_out = <<>>
    /\ an_in = <<>>
    /\ an_out = <<>>

ToMmssCall ==
    /\ mm_in # <<>>
    /\ mm_out = <<>>
    /\ mm_out' = <<_to_mmss(mm_in.mm, mm_in.ss, mm_in.s1),
                   _to_mmss(mm_in.mm, mm_in.ss, mm_in.s2)>>
    /\ UNCHANGED <<counselor_name, client_name, shift_seconds, lines, rows,
                   pending_speaker, pending_ts, pc, branch, df, emitted, before,
                   mm_in, an_in, an_out>>

SpecTs == InitTs /\ [][ToMmssCall]_vars

(***************************************************************************)
(* The anonymizer on its own: the two replacements of lines 223-224 on a   *)
(* text, for the names of two people.                                      *)
(***************************************************************************)
MaxText == 3

\* the names as entered (lines 375-379), normalised
AnonNames == {<<"Jane", "D">>, <<"Jane">>, <<"Sam">>}

\* the words of the texts
AnonVocab == {"Jane", "JANE", "D", "Sam", "Couns", "Client", "hi", "NBSP"}

AnonTexts == UNION {[1..n -> AnonVocab] : n \in 0..MaxText}

InitAnon ==
    /\ counselor_name \in AnonNames
    /\ client_name \in AnonNames \ {counselor_name}
    /\ shift_seconds = 0
    /\ lines = <<>>
    /\ rows = <<>>
    /\ pending_speaker = None
    /\ pending_ts = None
    /\ pc = "done"
    /\ branch = [grammar |-> "start", materialized |-> FALSE]
    /\ df = <<>>
    /\ emitted = <<>>
    /\ before = [rows |-> <<>>, pending_speaker |-> None, pending_ts |-> None,
                 emitted |-> <<>>]
    /\ mm_in = <<>>
    /\ mm_out = <<>>
    /\ an_in \in AnonTexts
    /\ an_out = <<>>

\* the text anonymized once, and the result anonymized again
AnonymizeCall ==
    /\ pc = "done"
    /\ mm_in = <<>>
    /\ an_out = <<>>
    /\ an_out' = <<Anonymize(an_in), Anonymize(Anonymize(an_in))>>
    /\ UNCHANGED <<counselor_name, client_name, shift_seconds, lines, rows,
                   pending_speaker, pending_ts, pc, branch, df, emitted, before,
                   mm_in, mm_out, an_in>>

SpecAnon == InitAnon /\ [][AnonymizeCall]_vars

(***************************************************************************)
(* Properties.                                                             *)
(***************************************************************************)
ClientRowsBlank(rs) ==
    \A i \in DOMAIN rs : rs[i].Speaker = <<"Client">> => rs[i].Timestamp = <<>>

\* C1: every turn whose Speaker is "Client" has an empty Timestamp, in the
\* accumulated rows after every processed line and in the returned rows.
C1_ClientHasNoTimestamp == ClientRowsBlank(rows) /\ ClientRowsBlank(df)

\* a Client turn was created while a timestamp was pending, and returned
C1_Witness ==
    /\ pc = "done"
    /\ Len(lines) = 2
    /\ lines[1] = <<"00:10">>
    /\ df # <<>>
    /\ df[1].Speaker = <<"Client">>

\* the white-space-delimited words of a text
Words(s) == Cardinality({i \in 1..Len(s) : s[i] \notin {"", "NBSP"}})

\* C2: a returned turn has Tag "ME" if and only if its Speaker is "Couns" and
\* its final (merged) Quote has at most 3 words; otherwise the Tag is empty.
C2_TagIffShortCounselorQuote ==
    \A i \in DOMAIN df :
        /\ df[i].Tag \in {"ME", ""}
        /\ df[i].Tag = "ME" <=> (df[i].Speaker = <<"Couns">> /\ Words(df[i].Quote) <= 3)

\* a counselor turn merged from two lines has exactly three words and is tagged,
\* and a turn of another speaker is not
C2_Witness ==
    /\ pc = "done"
    /\ Len(df) = 2
    /\ Len(emitted) = 3
    /\ df[1].Speaker = <<"Couns">> /\ Words(df[1].Quote) = 3 /\ df[1].Tag = "ME"
    /\ df[2].Speaker # <<"Couns">> /\ Words(df[2].Quote) <= 3 /\ df[2].Tag = ""

\* C3: no two adjacent returned turns have the same Speaker.
C3_NoAdjacentSameSpeaker ==
    \A i \in 1..(Len(df) - 1) : df[i].Speaker # df[i + 1].Speaker

\* three fragments, the first two of one speaker, were returned as two turns
C3_Witness ==
    /\ pc = "done"
    /\ Len(emitted) = 3
    /\ emitted[1].speaker = emitted[2].speaker
    /\ emitted[3].speaker # emitted[2].speaker
    /\ Len(df) = 2

SpeakerlessGrammars == {"blank", "header", "A", "B", "G"}

\* C4: when the input is empty or no line matches a speaker grammar (every
\* line is blank, a header, a cue line, a timestamp-only line or a continuation
\* line), the returned sequence is empty.
C4_NoSpeakerNoTurns ==
    (/\ pc = "done"
     /\ \A i \in DOMAIN lines : GrammarOf(lines[i]) \in SpeakerlessGrammars)
    => df = <<>>

\* the name occurs in q as a whole, in any case
ContainsName(q, name) ==
    \E i \in 1..Len(q) : NameAtHead(SubSeq(q, i, Len(q)), name) # 0

\* C5: no returned Quote contains a whole occurrence of the counselor name or
\* of the client name.
C5_QuotesHoldNoName ==
    \A i \in DOMAIN df :
        /\ ~ContainsName(df[i].Quote, counselor_name)
        /\ ~ContainsName(df[i].Quote, client_name)

\* the seconds a formatted timestamp stands for
Secs(ts) == ts[1] * 60 + ts[2]

\* the seconds the specification gives the match t: H*3600 + M*60 + S for three
\* components, M*60 + S for two, less the shift, floored at 0
SpecSeconds(t, shift) ==
    LET g == TsGroups(t)
        total == IF g[3] # -1 THEN g[1] * 3600 + g[2] * 60 + g[3] ELSE g[1] * 60 + g[2]
    IN IF total - shift > 0 THEN total - shift ELSE 0

\* the line handled last, as read and as normalized
LastRaw == lines[Len(lines)]

LastLine == Parsed(LastRaw).line

\* C6: after a cue line or a timestamp-only line, the pending timestamp stands
\* for max(0, H*3600 + M*60 + S - shift) seconds (max(0, M*60 + S - shift) for
\* two components) of the first timestamp of the line.
C6_HoursCount ==
    (/\ lines # <<>>
     /\ branch.grammar \in {"A", "B"}
     /\ TsSearch(LastLine) # 0)
    => Secs(pending_ts) = SpecSeconds(LastLine[TsSearch(LastLine)], shift_seconds)

\* C7: for one match and shifts s1 < s2 the seconds under s2 are at most those
\* under s1; the result is never negative; and a shift of at least the value of
\* the match gives "00:00".
C7_ShiftMonotoneAndFloored ==
    mm_out # <<>> =>
        /\ mm_in.s1 < mm_in.s2 => Secs(mm_out[2]) <= Secs(mm_out[1])
        /\ \A k \in 1..2 : mm_out[k][1] >= 0 /\ mm_out[k][2] >= 0
        /\ mm_in.s1 >= mm_in.mm * 60 + mm_in.ss => mm_out[1] = <<0, 0>>
        /\ mm_in.s2 >= mm_in.mm * 60 + mm_in.ss => mm_out[2] = <<0, 0>>

\* one match, positive under the smaller shift and floored under the larger
C7_Witness ==
    /\ mm_out # <<>>
    /\ mm_in.s1 < mm_in.s2
    /\ mm_in.s1 < mm_in.mm * 60 + mm_in.ss
    /\ mm_in.s2 > mm_in.mm * 60 + mm_in.ss
    /\ Secs(mm_out[1]) > 0
    /\ mm_out[2] = <<0, 0>>

\* C8: after any line whose text is materialized into a turn (a new turn or a
\* merge, a speaker line or a continuation line) pending_ts and pending_speaker
\* are both empty.
C8_PendingClearedAfterText ==
    branch.materialized => (pending_ts = None /\ pending_speaker = None)

\* the run (maximal block of consecutive fragments of one speaker) that the
\* i-th fragment of e belongs to
RunIndex(e, i) == 1 + Cardinality({j \in 2..i : e[j].speaker # e[j - 1].speaker})

RECURSIVE JoinRun(_, _, _)
\* the fragments of run k among the first n of e, each without the white space
\* around it, joined by single blanks
JoinRun(e, k, n) ==
    IF n = 0 THEN <<>>
    ELSE JoinRun(e, k, n - 1) \o (IF RunIndex(e, n) = k THEN StrStrip(e[n].q) ELSE <<>>)

Scenario2 == << <<"Sam", ":", "Yeah.">>, <<"Sam", ":", "okay.">> >>

\* C9: a fragment of the speaker of the last turn starts no new turn and is
\* appended to its Quote after exactly one blank: the turns are the runs of
\* consecutive fragments of one speaker, and each Quote is (up to white space at
\* its ends) the fragments of its run joined by single blanks in input order;
\* "Sam: Yeah." then "Sam: okay." give the one Client turn "Yeah. okay."
\* without timestamp.
C9_RunsJoinedBySingleBlanks ==
    /\ Len(rows) = IF emitted = <<>> THEN 0 ELSE RunIndex(emitted, Len(emitted))
    /\ \A i \in DOMAIN emitted :
         /\ rows[RunIndex(emitted, i)].Speaker = emitted[i].speaker
         /\ StrStrip(rows[RunIndex(emitted, i)].Quote) =
              JoinRun(emitted, RunIndex(emitted, i), Len(emitted))
    /\ (pc = "done" /\ lines = Scenario2) =>
         df = << [Timestamp |-> <<>>, Speaker |-> <<"Client">>,
                  Quote |-> <<"Yeah.", "okay.">>, Tag |-> ""] >>

Scenario1 == << <<"[", "Jane", "D", "]", "05:12", "Hello", "there">> >>

Scenario1Parsed ==
    /\ pc = "done"
    /\ lines = Scenario1
    /\ counselor_name = <<"Jane", "D">>
    /\ client_name = <<"Sam">>
    /\ shift_seconds = 0

\* C10 as stated: "[Jane D] 05:12 Hello there" gives one turn with timestamp
\* "05:12", speaker "Couns", quote "Hello there" and an empty tag.
C10_Scenario1EmptyTag ==
    Scenario1Parsed =>
        df = << [Timestamp |-> <<5, 12>>, Speaker |-> <<"Couns">>,
                 Quote |-> <<"Hello", "there">>, Tag |-> ""] >>

\* C10 amended: "[Jane D] 05:12 Hello there" gives one turn with timestamp
\* "05:12", speaker "Couns", quote "Hello there" and the tag "ME" (two words).
C10_Scenario1TaggedME ==
    Scenario1Parsed =>
        df = << [Timestamp |-> <<5, 12>>, Speaker |-> <<"Couns">>,
                 Quote |-> <<"Hello", "there">>, Tag |-> "ME"] >>

\* the line of the scenario was parsed and one turn returned
C10_Witness == Scenario1Parsed /\ Len(df) = 1

RECURSIVE Restore(_)
\* the role tokens of a text put back to the names they stand for
Restore(t) ==
    IF t = <<>> THEN <<>>
    ELSE (CASE Head(t) = "Couns" -> counselor_name
            [] Head(t) = "Client" -> client_name
            [] OTHER -> <<Head(t)>>) \o Restore(Tail(t))

\* C11: anonymizing an anonymized text changes nothing, and an anonymized text
\* whose role tokens are put back to the names anonymizes to itself again.
C11_AnonymizeIdempotent ==
    an_out # <<>> =>
        /\ an_out[2] = an_out[1]
        /\ Anonymize(Restore(an_out[1])) = an_out[1]

\* the scan has just handled a line: before holds what that iteration began with
Scanned == pc = "scan" /\ lines # <<>>

\* the grammar of the line handled last
LastGrammar == GrammarOf(LastRaw)

\* C12: a blank line or a header changes neither the turns nor pending_ts nor
\* pending_speaker; a cue line or a timestamp-only line changes neither the
\* turns nor pending_speaker and sets pending_ts to the normalized first
\* timestamp of the line, whatever was pending before.
C12_TextlessLinesFrame ==
    Scanned =>
        /\ LastGrammar \in {"blank", "header"} =>
              /\ rows = before.rows
              /\ pending_ts = before.pending_ts
              /\ pending_speaker = before.pending_speaker
        /\ LastGrammar \in {"A", "B"} =>
              /\ rows = before.rows
              /\ pending_speaker = before.pending_speaker
              /\ pending_ts = IF TsSearch(LastLine) = 0 THEN before.pending_ts
                              ELSE CarryTs(LastLine[TsSearch(LastLine)], shift_seconds)

\* a timestamp-only line has overwritten the pending timestamp of the line
\* before it, with a turn in the list
C12_Witness ==
    /\ Len(lines) = 3
    /\ lines[2] = <<"00:10">>
    /\ lines[3] = <<"-", "01:02:03">>
    /\ pc = "scan"
    /\ rows # <<>>
    /\ before.pending_ts = CarryTs("00:10", shift_seconds)
    /\ pending_ts = CarryTs("01:02:03", shift_seconds)
    /\ pending_ts # before.pending_ts

\* the last line was materialized: a fragment was added
Materialized == Len(emitted) = Len(before.emitted) + 1

\* the fragment materialized last
NewFragment == emitted[Len(emitted)]

SpeakerGrammars == {"C", "D", "E", "F"}

\* the pending timestamp in force when the last line was materialized: the
\* timestamp a speaker line carries itself, else the one pending before
TsInForce ==
    IF LastGrammar \in SpeakerGrammars /\ TsSearch(LastLine) # 0
    THEN CarryTs(LastLine[TsSearch(LastLine)], shift_seconds)
    ELSE before.pending_ts

\* C13: a meaningful fragment whose speaker is not the speaker of the last turn
\* (or that comes when there is no turn) starts a new turn: its Timestamp is
\* the pending timestamp in force, the one of the same line included, when
\* there is one and the speaker is not Client, and empty otherwise; its Speaker
\* is the mapped label and its Quote the fragment.
C13_NewTurnFields ==
    (/\ Scanned
     /\ Materialized
     /\ \/ before.rows = <<>>
        \/ before.rows[Len(before.rows)].Speaker # NewFragment.speaker)
    => rows = Append(before.rows,
                [Timestamp |-> IF NewFragment.speaker = <<"Client">> \/ TsInForce = None
                               THEN <<>> ELSE TsInForce,
                 Speaker |-> NewFragment.speaker,
                 Quote |-> NewFragment.q])

Scenario3 == << <<"00:00:10.000", "--&gt;", "00:00:12.000">>, <<"Jane", "D", ":", "Okay">> >>

\* a cue line, then a counselor line under shift 5: the turn starts at "00:05"
C13_Witness ==
    /\ lines = Scenario3
    /\ pc = "scan"
    /\ shift_seconds = 5
    /\ rows = << [Timestamp |-> <<0, 5>>, Speaker |-> <<"Couns">>, Quote |-> <<"Okay">>] >>

\* the match of the speaker grammar g on the line raw: name, ts and rest
LineMatch(raw, g) ==
    CASE g = "C" -> Parsed(raw).C
      [] g = "D" -> Parsed(raw).D
      [] g = "E" -> Parsed(raw).E
      [] g = "F" -> Parsed(raw).F

\* the speaker that a line of speaker grammar g names
LineSpeaker(raw, g) ==
    IF g = "F" THEN LineMatch(raw, g).name
    ELSE _normalize_name_input(LineMatch(raw, g).name)

\* the timestamp that a line of speaker grammar g carries itself, None for none
LineOwnTs(raw, g) ==
    LET m == LineMatch(raw, g)
        where == IF g = "C" THEN m.ts ELSE m.rest
    IN IF TsSearch(where) = 0 THEN None
       ELSE CarryTs(where[TsSearch(where)], shift_seconds)

\* a speaker line without meaningful text changes no turn and leaves its
\* speaker pending, with its timestamp if it has one
TextlessLeavesPending ==
    (Scanned /\ LastGrammar \in SpeakerGrammars /\ ~Materialized) =>
        /\ rows = before.rows
        /\ pending_speaker = LineSpeaker(LastRaw, LastGrammar)
        /\ pending_ts = IF LineOwnTs(LastRaw, LastGrammar) = None THEN before.pending_ts
                        ELSE LineOwnTs(LastRaw, LastGrammar)

\* a fragment was materialized while a speaker was pending
ConsumesPending == Scanned /\ before.pending_speaker # None /\ Materialized

\* C14 as stated: the speaker and the timestamp left pending by a speaker line
\* without meaningful text stay across blank, header, cue and timestamp-only
\* lines, and the next line that materializes text, of whatever grammar, is
\* attributed to that pending speaker.
C14_NextTextToPendingSpeaker ==
    /\ TextlessLeavesPending
    /\ (Scanned /\ before.pending_speaker # None
          /\ LastGrammar \in {"blank", "header", "A", "B"})
       => /\ pending_speaker = before.pending_speaker
          /\ before.pending_ts # None => pending_ts = before.pending_ts
    /\ ConsumesPending =>
          NewFragment.speaker = OrEmpty(map_public(before.pending_speaker))

\* C14 amended: the pending speaker stays across blank, header, cue and
\* timestamp-only lines, the pending timestamp across blank and header lines
\* (a cue or timestamp-only line replaces it); the next continuation line with
\* meaningful text is attributed to the pending speaker and, starting a turn of
\* another speaker than Client, gets the pending timestamp; a speaker line with
\* meaningful text is attributed to the speaker it names itself.
C14_PendingSpeakerToContinuation ==
    /\ TextlessLeavesPending
    /\ (Scanned /\ before.pending_speaker # None
          /\ LastGrammar \in {"blank", "header", "A", "B"})
       => /\ pending_speaker = before.pending_speaker
          /\ LastGrammar \in {"blank", "header"} => pending_ts = before.pending_ts
    /\ (ConsumesPending /\ LastGrammar = "G")
       => /\ NewFragment.speaker = OrEmpty(map_public(before.pending_speaker))
          /\ (Len(rows) = Len(before.rows) + 1 /\ NewFragment.speaker # <<"Client">>)
               => rows[Len(rows)].Timestamp = OrEmpty(before.pending_ts)
    /\ (ConsumesPending /\ LastGrammar \in SpeakerGrammars)
       => NewFragment.speaker = OrEmpty(map_public(LineSpeaker(LastRaw, LastGrammar)))

\* a speaker line with a timestamp and no text, a blank line, then a
\* continuation line: one turn of the pending speaker with that timestamp
C14_Witness ==
    /\ lines = << <<"Jane", "D", "(", "05:12", ")">>, <<>>, <<"I", "told", "Sam", "yes">> >>
    /\ pc = "scan"
    /\ rows = << [Timestamp |-> CarryTs("05:12", shift_seconds), Speaker |-> <<"Couns">>,
                  Quote |-> <<"I", "told", "Client", "yes">>] >>

\* the order in which the grammars are stated to be tried
GrammarOrder == <<"header", "A", "B", "C", "D", "E", "F", "G">>

\* the line raw has the shape that grammar g asks for, whatever the other
\* grammars say
MatchesGrammar(raw, g) ==
    CASE g = "header" -> IsHeader(Parsed(raw).line)
      [] g = "A" -> IsCue(Parsed(raw).line)
      [] g = "B" -> IsTsOnly(Parsed(raw).line)
      [] g = "C" -> Parsed(raw).C.ok /\ TsSearch(Parsed(raw).C.ts) # 0
      [] g = "D" -> Parsed(raw).D.ok
      [] g = "E" -> Parsed(raw).E.ok
      [] g = "F" -> Parsed(raw).F.ok
      [] g = "G" -> TRUE

\* the first grammar of the order that the line matches
FirstMatch(raw) ==
    GrammarOrder[Min({i \in DOMAIN GrammarOrder : MatchesGrammar(raw, GrammarOrder[i])})]

\* C15: a line that is not blank is handled by the first grammar of the order
\* header, cue, timestamp-only, Name(timestamp), [Name], Name:/Name-dash, bare
\* token, continuation that it matches, and by that one only; a line with a cue
\* arrow that is no header contributes neither text nor a speaker, also when
\* it matches a speaker grammar.
C15_FirstMatchDecides ==
    (Scanned /\ LastLine # <<>>) =>
        /\ branch.grammar = FirstMatch(LastRaw)
        /\ (IsCue(LastLine) /\ ~IsHeader(LastLine)) =>
              /\ ~Materialized
              /\ rows = before.rows
              /\ pending_speaker = before.pending_speaker

\* a line with a cue arrow that also has the shape Name: text was read after a
\* turn, as a cue line
C15_Witness ==
    /\ Scanned
    /\ lines[Len(lines)] = <<"Sam", ":", "01:02:03", "-->", "hi">>
    /\ MatchesGrammar(LastRaw, "E")
    /\ MatchesGrammar(LastRaw, "F")
    /\ branch.grammar = "A"
    /\ rows # <<>>
    /\ pending_ts = CarryTs("01:02:03", shift_seconds)

\* the line has the shape Name(group) and the group holds no timestamp
ParenWithoutTs(raw) ==
    Parsed(raw).C.ok /\ TsSearch(Parsed(raw).C.ts) = 0

LowerGrammars == <<"D", "E", "F", "G">>

\* the first of the grammars below Name(timestamp) that the line matches
LowerMatch(raw) ==
    LowerGrammars[Min({i \in DOMAIN LowerGrammars : MatchesGrammar(raw, LowerGrammars[i])})]

\* the continuation line was appended to the last turn (lines 320-325)
AppendArm == before.rows # <<>> /\ before.pending_speaker = None

\* C16: a line of the shape Name(group) whose group holds no timestamp (and
\* that is no header, cue or timestamp-only line) is handled by the first of
\* [Name], Name:/Name-dash, bare token, continuation that it matches, with the
\* effect of that grammar on the whole line: the name before the parenthesis
\* does not become the pending speaker and nothing of the group is dropped.
C16_ParenWithoutTsFallsThrough ==
    (/\ Scanned
     /\ ParenWithoutTs(LastRaw)
     /\ ~IsHeader(LastLine) /\ ~IsCue(LastLine) /\ ~IsTsOnly(LastLine))
    => LET g == LowerMatch(LastRaw)
           q == Quoted(LastRaw).G
       IN /\ branch.grammar = g
          /\ g \in SpeakerGrammars =>
                IF Materialized
                THEN NewFragment.speaker = OrEmpty(map_public(LineSpeaker(LastRaw, g)))
                ELSE pending_speaker = LineSpeaker(LastRaw, g)
          /\ (g = "G" /\ _is_meaningful(q)) =>
                /\ Materialized
                /\ NewFragment =
                     IF AppendArm
                     THEN [speaker |-> before.rows[Len(before.rows)].Speaker, q |-> q]
                     ELSE [speaker |-> OrEmpty(map_public(before.pending_speaker)),
                           q |-> Anonymize(q)]
                /\ pending_speaker = None
                /\ pending_ts = IF AppendArm THEN before.pending_ts ELSE None

\* "Bob ( note ) hi" was read as a continuation of the pending speaker Jane D,
\* and "Bob ( note ) - hello Sam" as a line of the speaker "Bob ( note )"
C16_Witness ==
    /\ Scanned
    /\ Len(lines) = 3
    /\ lines[1] = <<"Jane", "D", ":">>
    /\ lines[2] = <<"Bob", "(", "note", ")", "hi">>
    /\ lines[3] = <<"Bob", "(", "note", ")", "-", "hello", "Sam">>
    /\ Len(rows) = 2
    /\ rows[1].Speaker = <<"Couns">>
    /\ rows[1].Quote = <<"Bob", "(", "note", ")", "hi">>
    /\ rows[2].Speaker = <<"Bob", "(", "note", ")">>

\* p is the beginning of s
IsPrefix(p, s) == Len(p) <= Len(s) /\ SubSeq(s, 1, Len(p)) = p

\* C17: during the scan the turn list is append-only: after each line it is as
\* long as before or longer by one, every turn but the last is unchanged, and
\* the last turn of before keeps its Speaker, has its Quote only extended by
\* appended text and its Timestamp unchanged or, for a Client turn, blanked.
C17_ScanAppendOnly ==
    Scanned =>
        /\ Len(rows) \in {Len(before.rows), Len(before.rows) + 1}
        /\ \A i \in 1..(Len(before.rows) - 1) : rows[i] = before.rows[i]
        /\ before.rows # <<>> =>
              LET old == before.rows[Len(before.rows)]
                  new == rows[Len(before.rows)]
              IN /\ new.Speaker = old.Speaker
                 /\ IsPrefix(old.Quote, new.Quote)
                 /\ \/ new.Timestamp = old.Timestamp
                    \/ new.Speaker = <<"Client">> /\ new.Timestamp = <<>>

\* the sanitized text of a line of grammar g: of the rest of a speaker line
\* (without its timestamp), of the whole continuation line
LineFragment(raw, g) ==
    CASE g = "C" -> Quoted(raw).C
      [] g = "D" -> Quoted(raw).D
      [] g = "E" -> Quoted(raw).E
      [] g = "F" -> Quoted(raw).F
      [] g = "G" -> Quoted(raw).G

\* the Quote holds a word
HasWord(rs) == \A i \in DOMAIN rs : \E k \in DOMAIN rs[i].Quote : rs[i].Quote[k] \notin Blanks

\* C18: every turn of the turn list, after every line, and every returned turn
\* has a Quote that is not empty; a line whose sanitized text is not meaningful
\* creates no turn and appends to none.
C18_QuotesNotEmpty ==
    /\ HasWord(rows)
    /\ HasWord(df)
    /\ (/\ Scanned
        /\ LastGrammar \in SpeakerGrammars \cup {"G"}
        /\ ~_is_meaningful(LineFragment(LastRaw, LastGrammar)))
       => rows = before.rows /\ emitted = before.emitted

\* after a turn, a continuation line of decoration only and then a speaker line
\* without text were read; the turn was returned as it was
C18_Witness ==
    /\ pc = "done"
    /\ Len(lines) = 3
    /\ lines[2] = <<"*", "*">>
    /\ lines[3] = <<"[", "Bob", "]">>
    /\ Len(emitted) = 1
    /\ Len(df) = 1
    /\ df[1].Quote = emitted[1].q

\* the last line was merged into the turn that was the last one before it
Merged == Materialized /\ Len(rows) = Len(before.rows)

\* no turn of another speaker than Client has changed its Timestamp
TimestampsKept ==
    \A i \in DOMAIN before.rows :
        rows[i].Speaker # <<"Client">> => rows[i].Timestamp = before.rows[i].Timestamp

\* C19: the Timestamp of a turn that is not a Client turn is the one it was
\* created with, after every line and in the returned rows; and when a
\* fragment is merged into such a turn, the timestamp it carried or that was
\* pending is discarded: none is pending afterwards.
C19_TimestampFixedAtCreation ==
    /\ Scanned => TimestampsKept
    /\ (Scanned /\ Merged /\ rows[Len(rows)].Speaker # <<"Client">>) => pending_ts = None
    /\ pc = "done" =>
          \A i \in DOMAIN df :
              df[i].Speaker # <<"Client">> => df[i].Timestamp = rows[i].Timestamp

\* a row without its Tag
Untagged(r) == [Timestamp |-> r.Timestamp, Speaker |-> r.Speaker, Quote |-> r.Quote]

\* C20: after every line the turn list has no two adjacent turns of one
\* Speaker, so the consolidation and the sweep of Client timestamps at the end
\* change no turn: were the input to end here, the rows returned would be the
\* turn list with the Tag added, and the rows returned are.
C20_FinalPassesChangeNothing ==
    /\ \A i \in 1..(Len(rows) - 1) : rows[i].Speaker # rows[i + 1].Speaker
    /\ pc = "scan" =>
          /\ collapse_consecutive_rows(rows) = rows
          /\ \A i \in DOMAIN rows : Untagged(TagRow(rows[i])) = rows[i]
    /\ pc = "done" =>
          /\ Len(df) = Len(rows)
          /\ \A i \in DOMAIN df : Untagged(df[i]) = rows[i]

\* two fragments of the client after a timestamp-only line were returned as the
\* one turn without timestamp that the scan had made of them
C20_Witness ==
    /\ pc = "done"
    /\ Len(lines) = 3
    /\ lines[1] = <<"00:10">>
    /\ Len(emitted) = 2
    /\ emitted[1].speaker = <<"Client">>
    /\ emitted[2].speaker = <<"Client">>
    /\ Len(df) = 1
    /\ Untagged(df[1]) = rows[1]

====
